---- MODULE Spec2Model ----
(***************************************************************************)
(* Model of multigrid/utils/training_utilis.py: checkpoint discovery       *)
(* (get_checkpoint_dir), the agent -> policy mapping builder               *)
(* (get_policy_mapping_fn), the GPU probe (can_use_gpu) and the            *)
(* configuration assembly (algorithm_config).                              *)
(*                                                                         *)
(* The functions are stateless; the state of the model is the environment  *)
(* they read (directory tree, policies folder, framework probes) together  *)
(* with the most recent call and what it returned.  File and policy names  *)
(* are sequences of character codes, so that sorting and f-string          *)
(* formatting are computed, not assumed.                                   *)
(***************************************************************************)
EXTENDS Integers, Sequences, FiniteSets, TLC

VARIABLES files, searchErr, policiesStatus, entries, tfProbe, torchProbe, call, ret

vars == <<files, searchErr, policiesStatus, entries, tfProbe, torchProbe, call, ret>>
fsVars == <<files, searchErr, policiesStatus, entries, tfProbe, torchProbe>>

(* ---------------------------- bounds ---------------------------------- *)
MaxFiles == 3
MaxMtime == 2
MaxEntries == 3
MaxAgents == 11
MaxAgentId == 12
MaxGpus == 1
MaxSeed == 0

(* ------------------------ names as strings ---------------------------- *)
\* "policy_" as character codes
PolicyPrefix == <<112, 111, 108, 105, 99, 121, 95>>
\* directory names that may occur in a "policies" folder:
\* "policy_a", "policy_b", "policy_1", "policy_10"
PolicyNames ==
  {PolicyPrefix \o <<97>>, PolicyPrefix \o <<98>>, PolicyPrefix \o <<49>>, PolicyPrefix \o <<49, 48>>}

\* paths that may occur below the search root
FilePaths ==
  { [parent |-> "a/ckpt1", stem |-> "", ext |-> "is_checkpoint"],
    [parent |-> "a/ckpt1/old", stem |-> "", ext |-> "is_checkpoint"],
    [parent |-> "b/ckpt2", stem |-> "", ext |-> "is_checkpoint"],
    [parent |-> "b/ckpt2", stem |-> "params", ext |-> "pkl"] }

ArgKinds == {"None", "str", "Path"}
ProbeOutcomes == {"raise", "true", "false"}
Frameworks == {"torch", "tf2"}
AgentIds == 0..MaxAgentId

Min(a, b) == IF a < b THEN a ELSE b

\* string comparison (str.__lt__): lexicographic, a proper prefix is smaller
StrLess(a, b) ==
  \E i \in 1..(Min(Len(a), Len(b)) + 1) :
     /\ \A j \in 1..(i - 1) : a[j] = b[j]
     /\ \/ i <= Len(a) /\ i <= Len(b) /\ a[i] < b[i]
        \/ i = Len(a) + 1 /\ i <= Len(b)

\* Path.__lt__ for two children of the same folder compares their last part
PathLess(p, q) == StrLess(p.name, q.name)

\* str(int) for a non-negative integer, as character codes
RECURSIVE Decimal(_)
Decimal(i) == IF i < 10 THEN <<48 + i>> ELSE Decimal(i \div 10) \o <<48 + (i % 10)>>

\* f"policy_{agent_id}"
FallbackName(i) == PolicyPrefix \o Decimal(i)

Ok(v) == [raised |-> FALSE, value |-> v]
Raised == [raised |-> TRUE, value |-> "exception"]
NoneVal == "None"

(* --------------------------- sorted() --------------------------------- *)
\* stable insertion of x after every element that is not greater than it
RECURSIVE InsertPath(_, _)
InsertPath(s, x) ==
  IF s = <<>> THEN <<x>>
  ELSE IF PathLess(x, s[Len(s)]) THEN InsertPath(SubSeq(s, 1, Len(s) - 1), x) \o <<s[Len(s)]>>
  ELSE s \o <<x>>

\* variant: the listing is used in enumeration order, without sorted()
SortedPathsUnsorted(s) == s

RECURSIVE SortedPaths(_)
SortedPaths(s) ==
  IF s = <<>> THEN <<>> ELSE InsertPath(SortedPaths(SubSeq(s, 1, Len(s) - 1)), s[Len(s)])

RECURSIVE InsertByMtime(_, _)
InsertByMtime(s, x) ==
  IF s = <<>> THEN <<x>>
  ELSE IF x.mtime < s[Len(s)].mtime THEN InsertByMtime(SubSeq(s, 1, Len(s) - 1), x) \o <<s[Len(s)]>>
  ELSE s \o <<x>>

RECURSIVE SortedByMtime(_)
SortedByMtime(s) ==
  IF s = <<>> THEN <<>> ELSE InsertByMtime(SortedByMtime(SubSeq(s, 1, Len(s) - 1)), s[Len(s)])

(* ----------------------- get_checkpoint_dir --------------------------- *)
IsMarker(f) == f.path.ext = "is_checkpoint"

\* Path(search_dir).expanduser().glob("**/*.is_checkpoint"), in enumeration order
Glob(tree) == SelectSeq(tree, IsMarker)

\* variant: the oldest checkpoint is taken, sorted(...)[0]
CheckpointTryOldest(kind, tree, err) ==
  IF kind = "None" THEN Raised
  ELSE IF err THEN Raised
  ELSE LET checkpoints == SortedByMtime(Glob(tree))
       IN IF Len(checkpoints) = 0 THEN Raised
          ELSE Ok(checkpoints[1].path.parent)

\* the body of the try block
CheckpointTry(kind, tree, err) ==
  IF kind = "None" THEN Raised                        \* Path(None): TypeError
  ELSE IF err THEN Raised                             \* OSError from glob / getmtime
  ELSE LET checkpoints == SortedByMtime(Glob(tree))   \* a generator is always truthy
       IN IF Len(checkpoints) = 0 THEN Raised         \* [][-1]: IndexError
          ELSE Ok(checkpoints[Len(checkpoints)].path.parent)

\* variant: no except clause, the exception reaches the caller
GetCheckpointDirResultUncaught(kind, tree, err) == CheckpointTry(kind, tree, err)

\* except: pass, then the implicit return None
GetCheckpointDirResult(kind, tree, err) ==
  LET r == CheckpointTry(kind, tree, err)
  IN IF r.raised THEN Ok(NoneVal) ELSE r

(* --------------------- get_policy_mapping_fn -------------------------- *)
Lambda == [fn |-> "lambda", policies |-> <<>>]
Closure(policies) == [fn |-> "policy_mapping_fn", policies |-> policies]

\* policies[agent_id % len(policies)].name
ApplyModular(policies, agent_id) ==
  IF Len(policies) = 0 THEN Raised                    \* ZeroDivisionError
  ELSE Ok(policies[(agent_id % Len(policies)) + 1].name)

\* calling a function returned by get_policy_mapping_fn
Apply(f, agent_id) ==
  IF f.fn = "lambda" THEN Ok(FallbackName(agent_id))
  ELSE ApplyModular(f.policies, agent_id)

IsDir(p) == p.isDir

\* (checkpoint_dir / "policies").iterdir() filtered by is_dir()
ListPolicies(kind, status, dirEntries) ==
  IF kind # "Path" THEN Raised                        \* None / str and str / str: TypeError
  ELSE IF status # "present" THEN Raised              \* FileNotFoundError, PermissionError
  ELSE Ok(SelectSeq(dirEntries, IsDir))

\* variant: the diagnostic loop is dropped, so nothing divides by len(policies)
PrintLoopSkipped(policies, num_agents) == FALSE

\* the print loop over range(num_agents)
PrintLoopRaises(policies, num_agents) ==
  \E agent_id \in 0..(num_agents - 1) : ApplyModular(policies, agent_id).raised

GetPolicyMappingFnResult(kind, num_agents, status, dirEntries) ==
  LET l == ListPolicies(kind, status, dirEntries)
  IN IF l.raised THEN Ok(Lambda)
     ELSE LET policies == SortedPaths(l.value)
          IN IF PrintLoopRaises(policies, num_agents) THEN Ok(Lambda)
             ELSE Ok(Closure(policies))

(* --------------------------- can_use_gpu ------------------------------ *)
\* variant: Torch is asked first, TensorFlow only when Torch raised
CanUseGpuResultTorchFirst(tf, torch) ==
  IF torch # "raise" THEN Ok([gpu |-> (torch = "true"), probes |-> <<"torch">>])
  ELSE IF tf # "raise" THEN Ok([gpu |-> (tf = "true"), probes |-> <<"torch", "tf">>])
  ELSE Ok([gpu |-> FALSE, probes |-> <<"torch", "tf">>])

CanUseGpuResult(tf, torch) ==
  IF tf # "raise" THEN Ok([gpu |-> (tf = "true"), probes |-> <<"tf">>])
  ELSE IF torch # "raise" THEN Ok([gpu |-> (torch = "true"), probes |-> <<"tf", "torch">>])
  ELSE Ok([gpu |-> FALSE, probes |-> <<"tf", "torch">>])

(* ------------------------- algorithm_config --------------------------- *)
ModelConfig(framework, lstm) ==
  IF framework = "torch" THEN Ok(IF lstm THEN "TorchLSTMModel" ELSE "TorchModel")
  ELSE IF lstm THEN Raised                            \* NotImplementedError
  ELSE Ok("TFModel")

\* variant: policies numbered from 1, range(1, num_agents + 1)
ConfigPoliciesFromOne(num_agents) == {FallbackName(i) : i \in 1..num_agents}

\* {f"policy_{i}" for i in range(num_agents)}
ConfigPolicies(num_agents) == {FallbackName(i) : i \in 0..(num_agents - 1)}

ConfigNumGpus(num_gpus, gpu) == IF gpu THEN num_gpus ELSE 0

AlgorithmConfigResult(num_agents, framework, lstm, num_gpus, seed, tf, torch, status, dirEntries) ==
  LET gpu == CanUseGpuResult(tf, torch)
      fn == GetPolicyMappingFnResult("None", num_agents, status, dirEntries)
      model == ModelConfig(framework, lstm)
  IN IF gpu.raised \/ fn.raised \/ model.raised THEN Raised
     ELSE Ok([num_gpus |-> ConfigNumGpus(num_gpus, gpu.value.gpu),
              policies |-> ConfigPolicies(num_agents),
              policy_mapping_fn |-> fn.value,
              model |-> model.value,
              seed |-> seed])

(* ------------------------------ state --------------------------------- *)
\* no path, respectively no name, occurs twice in a directory listing
DistinctFiles(s) == \A i, j \in 1..Len(s) : i # j => s[i].path # s[j].path
DistinctNames(s) == \A i, j \in 1..Len(s) : i # j => s[i].name # s[j].name
SeqsUpTo(S, n) == UNION {[1..k -> S] : k \in 0..n}

Trees == {s \in SeqsUpTo([path : FilePaths, mtime : 1..MaxMtime], MaxFiles) : DistinctFiles(s)}
Folders == {s \in SeqsUpTo([name : PolicyNames, isDir : BOOLEAN], MaxEntries) : DistinctNames(s)}

NoCall == [op |-> "none", kind |-> "None", num_agents |-> 0, framework |-> "torch",
           lstm |-> FALSE, num_gpus |-> 0]
NoRet == Ok(NoneVal)

\* environments with an arbitrary tree below the search root
InitTree ==
  /\ files \in Trees
  /\ searchErr \in BOOLEAN
  /\ policiesStatus = "missing" /\ entries = <<>>
  /\ tfProbe = "raise" /\ torchProbe = "raise"

\* environments with an arbitrary "policies" folder in the checkpoint directory
InitFolder ==
  /\ files = <<>> /\ searchErr = FALSE
  /\ policiesStatus \in {"missing", "unreadable", "present"}
  /\ entries \in Folders
  /\ policiesStatus # "present" => entries = <<>>
  /\ tfProbe = "raise" /\ torchProbe = "raise"

Init == (InitTree \/ InitFolder) /\ call = NoCall /\ ret = NoRet

\* environments with arbitrary framework probes and a small "policies" folder
InitCfg ==
  /\ files = <<>> /\ searchErr = FALSE
  /\ policiesStatus \in {"missing", "unreadable", "present"}
  /\ entries \in {s \in Folders : Len(s) <= 1 /\ \A i \in 1..Len(s) : s[i].isDir}
  /\ policiesStatus # "present" => entries = <<>>
  /\ tfProbe \in ProbeOutcomes /\ torchProbe \in ProbeOutcomes
  /\ call = NoCall /\ ret = NoRet

\* variant: the search consumes the first file it enumerated
GetCheckpointDirConsuming ==
  \E kind \in ArgKinds :
    /\ call' = [NoCall EXCEPT !.op = "get_checkpoint_dir", !.kind = kind]
    /\ ret' = GetCheckpointDirResult(kind, files, searchErr)
    /\ files' = IF files = <<>> THEN files ELSE Tail(files)
    /\ UNCHANGED <<searchErr, policiesStatus, entries, tfProbe, torchProbe>>

GetCheckpointDir ==
  \E kind \in ArgKinds :
    /\ call' = [NoCall EXCEPT !.op = "get_checkpoint_dir", !.kind = kind]
    /\ ret' = GetCheckpointDirResult(kind, files, searchErr)
    /\ UNCHANGED fsVars

GetPolicyMappingFn ==
  \E kind \in ArgKinds, num_agents \in 0..MaxAgents :
    /\ call' = [NoCall EXCEPT !.op = "get_policy_mapping_fn", !.kind = kind,
                              !.num_agents = num_agents]
    /\ ret' = GetPolicyMappingFnResult(kind, num_agents, policiesStatus, entries)
    /\ UNCHANGED fsVars

CanUseGpu ==
  /\ call' = [NoCall EXCEPT !.op = "can_use_gpu"]
  /\ ret' = CanUseGpuResult(tfProbe, torchProbe)
  /\ UNCHANGED fsVars

AlgorithmConfig ==
  \E num_agents \in 0..MaxAgents, framework \in Frameworks, lstm \in BOOLEAN,
     num_gpus \in 0..MaxGpus, seed \in 0..MaxSeed :
    /\ call' = [op |-> "algorithm_config", kind |-> "None", num_agents |-> num_agents,
                framework |-> framework, lstm |-> lstm, num_gpus |-> num_gpus]
    /\ ret' = AlgorithmConfigResult(num_agents, framework, lstm, num_gpus, seed,
                                    tfProbe, torchProbe, policiesStatus, entries)
    /\ UNCHANGED fsVars

Next == GetCheckpointDir \/ GetPolicyMappingFn
Spec == Init /\ [][Next]_vars

NextCfg == CanUseGpu \/ AlgorithmConfig
ConfigSpec == InitCfg /\ [][NextCfg]_vars

(* ------------------- vocabulary of the properties --------------------- *)
IsMappingCall == call.op = "get_policy_mapping_fn"
IsCheckpointCall == call.op = "get_checkpoint_dir"

\* names of the immediate subdirectories of the "policies" folder
DirNames == {entries[i].name : i \in {j \in 1..Len(entries) : entries[j].isDir}}
\* position of v in the ascending enumeration of D
Rank(D, v) == Cardinality({d \in D : StrLess(d, v)})

\* the number a string of decimal digits denotes
RECURSIVE DigitsValue(_)
DigitsValue(d) ==
  IF d = <<>> THEN 0 ELSE 10 * DigitsValue(SubSeq(d, 1, Len(d) - 1)) + (d[Len(d)] - 48)

\* v is "policy_" followed by the decimal of i
IsPolicyOf(v, i) ==
  /\ Len(v) > Len(PolicyPrefix)
  /\ SubSeq(v, 1, Len(PolicyPrefix)) = PolicyPrefix
  /\ LET d == SubSeq(v, Len(PolicyPrefix) + 1, Len(v))
     IN /\ \A k \in 1..Len(d) : d[k] \in 48..57
        /\ (Len(d) > 1 => d[1] # 48)
        /\ DigitsValue(d) = i

\* f is the fallback mapping agent_id -> "policy_{agent_id}"
IsFallbackMapping(f) ==
  \A a \in AgentIds : LET r == Apply(f, a) IN ~r.raised /\ IsPolicyOf(r.value, a)

\* f is the modular mapping over the sorted subdirectory names
IsModularMapping(f) ==
  \A a \in AgentIds :
    LET r == Apply(f, a)
    IN /\ ~r.raised
       /\ r.value \in DirNames
       /\ Rank(DirNames, r.value) = a % Cardinality(DirNames)

Markers == {files[i] : i \in {j \in 1..Len(files) : files[j].path.ext = "is_checkpoint"}}

(* ----------------------------- claims --------------------------------- *)

\* C1: with a non-empty set of subdirectories in the "policies" folder (plain
\* files excluded), the function returned for a Path checkpoint_dir maps every
\* agent_id >= 0 to P[agent_id mod N], P the subdirectory names in ascending
\* order, also for agent_id >= num_agents.
C1_ModularOverSortedPolicies ==
  (IsMappingCall /\ call.kind = "Path" /\ policiesStatus = "present" /\ DirNames # {})
    => ~ret.raised /\ IsModularMapping(ret.value)

\* two subdirectories enumerated in descending order next to a plain file,
\* queried beyond num_agents
C1_Witness ==
  /\ IsMappingCall /\ call.kind = "Path" /\ policiesStatus = "present"
  /\ Cardinality(DirNames) = 2 /\ Len(entries) = 3
  /\ \E i, j \in 1..Len(entries) :
        i < j /\ entries[i].isDir /\ entries[j].isDir /\ StrLess(entries[j].name, entries[i].name)
  /\ call.num_agents = 1
  /\ Apply(ret.value, 3).value = Apply(ret.value, 1).value
  /\ Apply(ret.value, 0).value # Apply(ret.value, 1).value

\* the checkpoint named by the argument has no usable set of saved policies
Unusable == call.kind # "Path" \/ policiesStatus # "present" \/ DirNames = {}

\* C2: for an absent (None) or unusable checkpoint directory and any
\* num_agents, the returned function maps every i >= 0 to "policy_" followed
\* by the decimal of i.
C2_FallbackForAnyNumAgents ==
  (IsMappingCall /\ (call.kind = "None" \/ Unusable))
    => ~ret.raised /\ IsFallbackMapping(ret.value)

\* C3: for num_agents >= 1, a missing, unreadable or subdirectory-free
\* "policies" folder makes get_policy_mapping_fn return the fallback mapping
\* without raising, the same in all three cases.
C3_SilentFallback ==
  (IsMappingCall /\ call.num_agents >= 1 /\ (policiesStatus # "present" \/ DirNames = {}))
    => ~ret.raised /\ ret.value = Lambda /\ IsFallbackMapping(ret.value)

\* a readable "policies" folder holding only plain files, read through a Path
C3_Witness ==
  /\ IsMappingCall /\ call.num_agents >= 1 /\ call.kind = "Path"
  /\ policiesStatus = "present" /\ Len(entries) >= 1 /\ DirNames = {}
  /\ ret.value = Lambda

\* C4: every function returned by get_policy_mapping_fn, whatever the
\* checkpoint directory and num_agents, returns a policy ID for every
\* agent_id >= 0 and never raises.
C4_ReturnedFunctionTotal ==
  IsMappingCall => ~ret.raised /\ \A a \in AgentIds : ~Apply(ret.value, a).raised

\* C5: get_checkpoint_dir returns None and raises nothing when there is no
\* marker below search_dir, search_dir is None, or the search hits a
\* filesystem error.
C5_NoneWithoutMarkers ==
  (IsCheckpointCall /\ (Markers = {} \/ call.kind = "None" \/ searchErr))
    => ~ret.raised /\ ret.value = NoneVal

\* a readable tree that holds files but no marker
C5_Witness ==
  /\ IsCheckpointCall /\ call.kind # "None" /\ ~searchErr
  /\ Len(files) >= 1 /\ Markers = {} /\ ret.value = NoneVal

\* C6: with one or more markers below search_dir (and a search that
\* completes), get_checkpoint_dir returns the parent of a marker whose
\* modification time is the greatest among the markers.
C6_ParentOfNewestMarker ==
  (IsCheckpointCall /\ call.kind # "None" /\ ~searchErr /\ Markers # {})
    => /\ ~ret.raised
       /\ \E m \in Markers : /\ ret.value = m.path.parent
                             /\ \A o \in Markers : o.mtime <= m.mtime

\* the newest marker is not the last one enumerated, an older one sits elsewhere
C6_Witness ==
  /\ IsCheckpointCall /\ call.kind = "str" /\ ~searchErr /\ Len(files) = 3
  /\ files[1].path.ext = "is_checkpoint" /\ files[3].path.ext = "is_checkpoint"
  /\ files[1].mtime > files[3].mtime
  /\ files[1].path.parent # files[3].path.parent
  /\ ret.value = files[1].path.parent

C8_StrSameAsPath ==
  (IsMappingCall /\ call.kind = "str" /\ policiesStatus = "present" /\ DirNames # {})
    => /\ IsModularMapping(ret.value)
       /\ \A a \in AgentIds :
            Apply(ret.value, a)
              = Apply(GetPolicyMappingFnResult("Path", call.num_agents, policiesStatus, entries).value, a)

IsConfigCall == call.op = "algorithm_config"

\* C9: a configuration built by algorithm_config has exactly num_agents
\* policies, its policy_mapping_fn sends every agent_id < num_agents to one
\* of them, and distinct agents get distinct policies.
C9_PoliciesMatchMapping ==
  (IsConfigCall /\ ~ret.raised)
    => LET cfg == ret.value
           n == call.num_agents
       IN /\ Cardinality(cfg.policies) = n
          /\ \A a \in 0..(n - 1) :
               LET r == Apply(cfg.policy_mapping_fn, a)
               IN ~r.raised /\ r.value \in cfg.policies /\ IsPolicyOf(r.value, a)
          /\ \A a, b \in 0..(n - 1) :
               a # b => Apply(cfg.policy_mapping_fn, a) # Apply(cfg.policy_mapping_fn, b)

\* eleven agents ("policy_1" and "policy_10" both occur) next to a saved "policy_1"
C9_Witness ==
  /\ IsConfigCall /\ ~ret.raised /\ call.num_agents = 11
  /\ policiesStatus = "present" /\ Len(entries) = 1
  /\ Cardinality(ret.value.policies) = 11

\* C10: can_use_gpu never raises; it asks TensorFlow first and returns its
\* answer, asks Torch only when the TensorFlow probe raised and returns its
\* answer, and returns False when both raised; algorithm_config sets num_gpus
\* to the caller's value only when can_use_gpu is true, otherwise to 0.
C10_ProbeOrder ==
  /\ call.op = "can_use_gpu" =>
       /\ ~ret.raised
       /\ ret.value.probes[1] = "tf"
       /\ (tfProbe # "raise" => ret.value.probes = <<"tf">> /\ ret.value.gpu = (tfProbe = "true"))
       /\ (tfProbe = "raise" => ret.value.probes = <<"tf", "torch">>)
       /\ (tfProbe = "raise" /\ torchProbe # "raise" => ret.value.gpu = (torchProbe = "true"))
       /\ (tfProbe = "raise" /\ torchProbe = "raise" => ret.value.gpu = FALSE)
  /\ (IsConfigCall /\ ~ret.raised) =>
       LET gpu == \/ tfProbe = "true"
                  \/ tfProbe = "raise" /\ torchProbe = "true"
       IN ret.value.num_gpus = IF gpu THEN call.num_gpus ELSE 0

\* TensorFlow answers "no GPU" while Torch would say yes: a requested GPU is dropped
C10_Witness ==
  /\ IsConfigCall /\ ~ret.raised /\ call.num_gpus = 1
  /\ tfProbe = "false" /\ torchProbe = "true" /\ ret.value.num_gpus = 0

====
